---- MODULE Spec2Model ----
\* Verification model of the cursor-portal MCP servers:
\*   - download_video, the bounded polling loop of the HeyGen server
\*     (servers/creative/heygen-python-mcp/heygen-mcp-server.py);
\*   - generate_ghost_jwt, the admin token builder of the Ghost server
\*     (servers/blog/ghost_mcp_server.py);
\*   - the tools of the Ghost server, as the sequence of their configuration
\*     reads, token builds, HTTP requests, nested tool calls and returns;
\*   - generate_image_from_text of the image servers (servers/media);
\*   - two calls of generate_ghost_jwt in a row, and two interleaved calls of
\*     download_video.
EXTENDS Integers, Sequences, FiniteSets, TLC

VARIABLES
    \* ---- one download_video call ----
    pc,             \* position of the call in its body
    max_retries,    \* argument
    poll_interval,  \* argument, milliseconds
    retries,        \* the local attempts counter
    status_data,    \* the last parsed status response
    hist,           \* every response a status query received, in order
    queries,        \* status queries issued
    sleeps,         \* calls of time.sleep that returned
    waited,         \* milliseconds slept in total
    fetches,        \* artifact fetches issued
    video_response, \* what the artifact fetch received
    file,           \* output/video_<video_id>.mp4
    outcome,        \* how the call ended
    \* ---- one generate_ghost_jwt call ----
    jpc,            \* position of the call in its body
    admin_api_key,  \* argument, a sequence of code points
    now,            \* the wall clock, whole seconds and milliseconds
    key_id,         \* local
    secret_bytes,   \* local
    iat,            \* local
    read_at,        \* the clock reading time.time() returned
    token,          \* the returned token, a sequence of ASCII codes
    jerr,           \* the exception the call raised
    hmac_table,     \* the values of HMAC-SHA256 computed so far
    jlog,           \* records generate_ghost_jwt wrote to the module's logger
    first_call,     \* what an earlier call with the same credential returned
    \* ---- one generate_image_from_text call ----
    ipc,            \* position of the call in its body
    image_server,   \* the server whose tool is called
    prompt,         \* argument
    save_to_file,   \* argument
    number_of_images, \* parameter of generate_image, as bound by the call
    save_path,      \* parameter of generate_image, as bound by the call
    response,       \* what model.generate_images returned
    written,        \* the file generate_image wrote
    image_result,   \* how the tool call ended
    \* ---- one call of a Ghost tool ----
    gstack,         \* the running tool invocations, the innermost last
    gcalls,         \* tool invocations started so far
    genv,           \* the configuration read from the environment
    gargs,          \* arguments of the tool call
    gpost,          \* the post as the Ghost site holds it
    gclock,         \* seconds since the tool was called
    gtokens,        \* the tokens generate_ghost_jwt returned, in order
    greqs,          \* every outbound HTTP request, in order
    gtemp,          \* the temporary video file
    gresult,        \* how the tool call ended
    \* ---- two download_video calls in one server process ----
    sessions,       \* the state of each call: its arguments, locals, history
    outputs         \* the files of OUTPUT_DIR, by video_id

pollVars == <<pc, max_retries, poll_interval, retries, status_data, hist,
              queries, sleeps, waited, fetches, video_response, file,
              outcome>>
jwtVars == <<jpc, admin_api_key, now, key_id, secret_bytes, iat, read_at,
             token, jerr, hmac_table, jlog, first_call>>
imgVars == <<ipc, image_server, prompt, save_to_file, number_of_images,
             save_path, response, written, image_result>>
ghostVars == <<gstack, gcalls, genv, gargs, gpost, gclock, gtokens, greqs, gtemp,
               gresult>>
pairVars == <<sessions, outputs>>
toolVars == <<imgVars, ghostVars, pairVars>>
vars == <<pollVars, jwtVars, toolVars>>

\* ---------------------------------------------------------------------
\* Bounds
\* ---------------------------------------------------------------------
MaxRetriesBound == 3
MaxIdLen == 2

\* ---------------------------------------------------------------------
\* download_video
\* ---------------------------------------------------------------------
Absent == "<absent>"     \* the key video_url is not in the response
Null == "<null>"         \* JSON null
VideoUrl == "https://files.heygen.ai/video.mp4"
Urls == {Absent, Null, "", VideoUrl}

\* Status strings the remote API may report.  The comparison of the code is
\* exact, so "Completed" is not "completed".
InProgressStatuses == {"pending", "processing", "Completed"}
Statuses == InProgressStatuses \cup {"completed", "failed"}

NoResponse == [net |-> "none", http |-> 0, json |-> FALSE, status |-> "", url |-> Absent]
NetFailure == [net |-> "fail", http |-> 0, json |-> FALSE, status |-> "", url |-> Absent]

\* What requests.get may give a status query: a network failure, a body that
\* is not JSON, or a JSON body carrying data.status and possibly
\* data.video_url (the shape the status API documents; a JSON body without
\* data.status is not among the responses).  The HTTP status code is not
\* looked at by the code, so a non-2xx response is classified by its body.
StatusResponses ==
    {NetFailure}
    \cup { [net |-> "ok", http |-> h, json |-> FALSE, status |-> "", url |-> Absent] :
              h \in {200, 500} }
    \cup { [net |-> "ok", http |-> 200, json |-> TRUE, status |-> s, url |-> Null] :
              s \in {"pending", "processing", "failed"} }
    \cup { [net |-> "ok", http |-> 500, json |-> TRUE, status |-> "pending", url |-> Null],
           [net |-> "ok", http |-> 200, json |-> TRUE, status |-> "Completed", url |-> VideoUrl],
           [net |-> "ok", http |-> 500, json |-> TRUE, status |-> "completed", url |-> VideoUrl] }
    \cup { [net |-> "ok", http |-> 200, json |-> TRUE, status |-> "completed", url |-> u] :
              u \in Urls }

FetchResponses == {"200", "404", "fail"}
PollIntervals == {500, 10000}
MaxRetriesArgs == -1 .. MaxRetriesBound

\* Exceptions the call can end with, and the normal return.
Returned == "returned"
JobFailed == "ValueError: Video processing failed"
UrlNotFound == "ValueError: Video URL not found in the response"
Timeout == "TimeoutError: Video processing timeout"
KeyErrorUrl == "KeyError: 'video_url'"
ConnectionError == "requests.ConnectionError"
HTTPError == "requests.HTTPError"
JSONDecodeError == "requests.JSONDecodeError"

\* Variant: the loop admits one attempt too many.
LoopConditionInclusive(r, m) == r <= m

\* Variant: the body runs once before the bound is looked at.
LoopConditionAtLeastOnce(r, m) == r = 0 \/ r < m

\* while retries < max_retries
LoopCondition(r, m) == r < m

\* Variant: "completed" is not recognised and is slept on.
StatusBranchPollsOn(s) ==
    IF s = "failed" THEN "failed" ELSE "sleep"

\* Variant: "failed" falls into the retry path.
StatusBranchRetriesFailed(s) ==
    IF s = "completed" THEN "completed" ELSE "sleep"

\* Variant: the status is compared without regard to case.
StatusBranchAnyCase(s) ==
    IF s \in {"completed", "Completed"} THEN "completed"
    ELSE IF s = "failed" THEN "failed"
    ELSE "sleep"

\* The if / elif / fall-through on status_data["data"]["status"].
StatusBranch(s) ==
    IF s = "completed" THEN "completed"
    ELSE IF s = "failed" THEN "failed"
    ELSE "sleep"

\* Variant: a null or empty video_url is taken as a locator.
UrlLookupLenient(u) ==
    IF u = Absent THEN KeyErrorUrl ELSE "ok"

\* video_url = status_data["data"]["video_url"]; if not video_url: raise
\* An absent key raises KeyError in the subscript, before the test.
UrlLookup(u) ==
    IF u = Absent THEN KeyErrorUrl
    ELSE IF u = Null \/ u = "" THEN UrlNotFound
    ELSE "ok"

\* Variant: the counter is not advanced.
NextRetriesStuck(r) == r

\* retries += 1
NextRetries(r) == r + 1

InitPollVars ==
    /\ pc = "loop"
    /\ max_retries \in MaxRetriesArgs
    /\ poll_interval \in PollIntervals
    /\ retries = 0
    /\ status_data = NoResponse
    /\ hist = << >>
    /\ queries = 0
    /\ sleeps = 0
    /\ waited = 0
    /\ fetches = 0
    /\ video_response = "none"
    /\ file \in {"absent", "old"}
    /\ outcome = "running"

IdlePollVars ==
    /\ pc = "idle"
    /\ max_retries = 0
    /\ poll_interval = 0
    /\ retries = 0
    /\ status_data = NoResponse
    /\ hist = << >>
    /\ queries = 0
    /\ sleeps = 0
    /\ waited = 0
    /\ fetches = 0
    /\ video_response = "none"
    /\ file = "absent"
    /\ outcome = "running"

Raise(e) ==
    /\ outcome' = e
    /\ pc' = "done"

\* line 156 and, when the loop is left, line 194
LoopTest ==
    /\ pc = "loop"
    /\ IF LoopCondition(retries, max_retries)
         THEN pc' = "query" /\ outcome' = outcome
         ELSE Raise(Timeout)
    /\ UNCHANGED <<max_retries, poll_interval, retries, status_data, hist,
                   queries, sleeps, waited, fetches, video_response, file>>
    /\ UNCHANGED <<jwtVars, toolVars>>

\* lines 159-167: requests.get of the status endpoint and .json()
StatusQuery ==
    /\ pc = "query"
    /\ queries' = queries + 1
    /\ \E r \in StatusResponses :
         /\ hist' = Append(hist, r)
         /\ IF r.net = "fail"
              THEN Raise(ConnectionError) /\ status_data' = status_data
              ELSE IF ~r.json
                THEN Raise(JSONDecodeError) /\ status_data' = status_data
                ELSE /\ status_data' = r
                     /\ pc' = "classify"
                     /\ outcome' = outcome
    /\ UNCHANGED <<max_retries, poll_interval, retries, sleeps, waited,
                   fetches, video_response, file>>
    /\ UNCHANGED <<jwtVars, toolVars>>

\* lines 169-172 and 188-189
Classify ==
    /\ pc = "classify"
    /\ LET b == StatusBranch(status_data.status) IN
         IF b = "completed"
           THEN IF UrlLookup(status_data.url) = "ok"
                  THEN pc' = "fetch" /\ outcome' = outcome
                  ELSE Raise(UrlLookup(status_data.url))
           ELSE IF b = "failed"
             THEN Raise(JobFailed)
             ELSE pc' = "sleep" /\ outcome' = outcome
    /\ UNCHANGED <<max_retries, poll_interval, retries, status_data, hist,
                   queries, sleeps, waited, fetches, video_response, file>>
    /\ UNCHANGED <<jwtVars, toolVars>>

\* Variant: the status code of the fetched response is not looked at.
FetchResultUnchecked(f) ==
    IF f = "fail" THEN ConnectionError ELSE "ok"

\* requests.get(video_url) raises on a network failure and
\* raise_for_status() on a response outside 2xx
FetchResult(f) ==
    IF f = "fail" THEN ConnectionError
    ELSE IF f = "404" THEN HTTPError
    ELSE "ok"

\* lines 174-175: requests.get(video_url) and raise_for_status()
FetchArtifact ==
    /\ pc = "fetch"
    /\ fetches' = fetches + 1
    /\ \E f \in FetchResponses :
         /\ video_response' = f
         /\ IF FetchResult(f) = "ok"
              THEN pc' = "write" /\ outcome' = outcome
              ELSE Raise(FetchResult(f))
    /\ UNCHANGED <<max_retries, poll_interval, retries, status_data, hist,
                   queries, sleeps, waited, file>>
    /\ UNCHANGED <<jwtVars, toolVars>>

\* lines 177-186: the file is written and the result returned (OUTPUT_DIR
\* exists since import, line 39; the write itself is taken to succeed)
WriteFile ==
    /\ pc = "write"
    /\ file' = "new"
    /\ Raise(Returned)
    /\ UNCHANGED <<max_retries, poll_interval, retries, status_data, hist,
                   queries, sleeps, waited, fetches, video_response>>
    /\ UNCHANGED <<jwtVars, toolVars>>

\* lines 191-192: time.sleep(interval); retries += 1
Sleep ==
    /\ pc = "sleep"
    /\ sleeps' = sleeps + 1
    /\ waited' = waited + poll_interval
    /\ retries' = NextRetries(retries)
    /\ pc' = "loop"
    /\ UNCHANGED <<max_retries, poll_interval, status_data, hist, queries,
                   fetches, video_response, file, outcome>>
    /\ UNCHANGED <<jwtVars, toolVars>>

NextPoll ==
    \/ LoopTest
    \/ StatusQuery
    \/ Classify
    \/ FetchArtifact
    \/ WriteFile
    \/ Sleep

NoCall == [made |-> FALSE, token |-> << >>, read_at |-> [sec |-> 0, ms |-> 0],
           jerr |-> "none"]
IdleJwtVars ==
    /\ jpc = "idle"
    /\ admin_api_key = << >>
    /\ now = [sec |-> 0, ms |-> 0]
    /\ key_id = << >>
    /\ secret_bytes = << >>
    /\ iat = 0
    /\ read_at = [sec |-> 0, ms |-> 0]
    /\ token = << >>
    /\ jerr = "none"
    /\ hmac_table = {}
    /\ jlog = 0
    /\ first_call = NoCall

\* No image tool call is running.
PyNone == "<None>"
NoImages == [raises |-> FALSE, images |-> << >>]
NoFile == [path |-> PyNone, bytes |-> PyNone]
IdleImgVars ==
    /\ ipc = "idle"
    /\ image_server = "none"
    /\ prompt = ""
    /\ save_to_file = PyNone
    /\ number_of_images = PyNone
    /\ save_path = PyNone
    /\ response = NoImages
    /\ written = NoFile
    /\ image_result = [kind |-> "running"]
\* No Ghost tool call is running.
S_top == <<116, 111, 112>>
NoChildren == [has |-> "absent", list |-> << >>]
NoLexical == [lex |-> "absent", root |-> FALSE, children |-> NoChildren]
DefaultPost == [title |-> "Old title", status |-> "draft", lexical |-> NoLexical]
DefaultArgs(t) ==
    [tool |-> t, video |-> FALSE, image |-> "none", position |-> S_top,
     title |-> PyNone, status |-> PyNone]
FullEnv == [url |-> TRUE, key |-> "valid", heygen |-> TRUE]
IdleGhostVars ==
    /\ gstack = << >>
    /\ gcalls = 0
    /\ genv = FullEnv
    /\ gargs = DefaultArgs("none")
    /\ gpost = DefaultPost
    /\ gclock = 0
    /\ gtokens = << >>
    /\ greqs = << >>
    /\ gtemp = "absent"
    /\ gresult = [kind |-> "idle", isError |-> FALSE]
\* No pair of download_video calls is running.
IdlePairVars ==
    /\ sessions = << >>
    /\ outputs = << >>
IdleToolVars == IdleImgVars /\ IdleGhostVars /\ IdlePairVars

Init == InitPollVars /\ IdleJwtVars /\ IdleToolVars
Next == NextPoll
Spec == Init /\ [][Next]_vars
\* Each step of the call returns (every HTTP call and every sleep returns).
FairSpec == Spec /\ WF_vars(Next)

\* ---------------------------------------------------------------------
\* Properties of download_video
\* ---------------------------------------------------------------------
\* A status query got a parsed response whose status is neither of the two
\* terminal ones.
InProgressResp(r) ==
    r.net = "ok" /\ r.json /\ r.status \notin {"completed", "failed"}
CompletedResp(r) == r.net = "ok" /\ r.json /\ r.status = "completed"
FailedResp(r) == r.net = "ok" /\ r.json /\ r.status = "failed"
UrlPresent(r) == r.url \notin {Absent, Null, ""}
AllInProgress(h, n) == \A i \in 1..n : InProgressResp(h[i])
Done == pc = "done"

\* C1: success path.  If the first k-1 status responses are in progress and
\* the k-th is "completed" with a non-empty video_url, no further query or
\* sleep follows: the call has issued exactly k queries and k-1 sleeps, it
\* ends after exactly one artifact fetch, and it returns success (with the
\* file written) when that fetch answers 2xx.
C1_SuccessPath ==
    \A k \in 1..Len(hist) :
        (AllInProgress(hist, k - 1) /\ CompletedResp(hist[k]) /\ UrlPresent(hist[k]))
        => /\ max_retries >= 1 /\ k <= max_retries
           /\ Len(hist) = k
           /\ queries = k
           /\ sleeps = k - 1
           /\ retries = k - 1
           /\ pc \in {"classify", "fetch", "write", "done"}
           /\ fetches = (IF pc = "classify" \/ pc = "fetch" THEN 0 ELSE 1)
           /\ (Done /\ video_response = "200") => (outcome = Returned /\ file = "new")
           /\ Done => video_response \in FetchResponses
           /\ (Done /\ video_response # "200")
                 => outcome \in {ConnectionError, HTTPError}

\* The call returned success on its last permitted attempt, after sleeps.
C1_Witness ==
    /\ Done /\ outcome = Returned
    /\ max_retries = MaxRetriesBound
    /\ Len(hist) = max_retries
    /\ AllInProgress(hist, Len(hist) - 1)
    /\ sleeps = max_retries - 1 /\ sleeps >= 2 /\ fetches = 1

\* C2: timeout path.  With max_retries >= 1, once the first max_retries
\* status responses were all in progress the call issues no further query
\* and no fetch, and it ends with the timeout error after exactly
\* max_retries queries; having ended it takes no further step.
C2_TimeoutPath ==
    (max_retries >= 1 /\ Len(hist) >= max_retries /\ AllInProgress(hist, max_retries))
    => /\ Len(hist) = max_retries
       /\ queries = max_retries
       /\ fetches = 0
       /\ pc \in {"classify", "sleep", "loop", "done"}
       /\ Done => (outcome = Timeout /\ ~ENABLED Next)

C2_Witness ==
    /\ Done /\ outcome = Timeout
    /\ max_retries = MaxRetriesBound
    /\ Len(hist) = max_retries
    /\ AllInProgress(hist, max_retries)

\* C3: failed path.  A "failed" status response is the last response of the
\* call: it is followed by no sleep, no status query and no artifact fetch,
\* and the call ends with the job-failed error.
C3_FailedPath ==
    \A k \in 1..Len(hist) :
        FailedResp(hist[k])
        => /\ Len(hist) = k
           /\ queries = k
           /\ sleeps = k - 1
           /\ fetches = 0
           /\ pc \in {"classify", "done"}
           /\ Done => outcome = JobFailed

C3_Witness ==
    /\ Done /\ outcome = JobFailed
    /\ Len(hist) = MaxRetriesBound
    /\ FailedResp(hist[Len(hist)])
    /\ AllInProgress(hist, Len(hist) - 1)
    /\ sleeps = Len(hist) - 1

\* C4: missing artifact.  When a status response is "completed" and its
\* video_url is absent, null or empty, the call ends with the
\* missing-artifact error, makes no artifact fetch and writes no file.
C4_MissingArtifact ==
    \A k \in 1..Len(hist) :
        (CompletedResp(hist[k]) /\ ~UrlPresent(hist[k]) /\ Done)
        => (outcome = UrlNotFound /\ fetches = 0 /\ file # "new")

\* What holds of the code in that case: the call fails without a fetch and
\* without a write, with KeyError when the key is absent.
C4_FailsWithoutFetch ==
    \A k \in 1..Len(hist) :
        (CompletedResp(hist[k]) /\ ~UrlPresent(hist[k]))
        => /\ Len(hist) = k /\ fetches = 0 /\ file # "new"
           /\ pc \in {"classify", "done"}
           /\ Done => outcome = (IF hist[k].url = Absent THEN KeyErrorUrl ELSE UrlNotFound)

\* C5: the three-way classification.  Only a "completed" response is followed
\* by a fetch, only a "failed" response by the job-failed error; every other
\* status is followed by exactly one sleep and one increment of the counter,
\* and never ends the call directly: after it the call can end only by the
\* timeout of the exhausted loop.  A "failed" response is never followed by a
\* sleep, another query or a timeout.
C5_ThreeWay ==
    LET n == Len(hist)
        slept == {k \in 1..n : InProgressResp(hist[k])
                                 /\ ~(k = n /\ pc \in {"classify", "sleep"})}
    IN
    /\ \A k \in 1..(n - 1) : InProgressResp(hist[k])
    /\ sleeps = Cardinality(slept)
    /\ retries = sleeps
    /\ waited = sleeps * poll_interval
    /\ (n > 0 /\ InProgressResp(hist[n]))
          => /\ pc \in {"classify", "sleep", "loop", "query", "done"}
             /\ fetches = 0
             /\ Done => (outcome = Timeout /\ retries = max_retries)
    /\ (n > 0 /\ FailedResp(hist[n]))
          => (pc \in {"classify", "done"} /\ outcome \in {"running", JobFailed})
    /\ (fetches > 0 \/ pc \in {"fetch", "write"}
          \/ outcome \in {Returned, UrlNotFound, KeyErrorUrl})
          => (n > 0 /\ CompletedResp(hist[n]))
    /\ outcome = JobFailed => (n > 0 /\ FailedResp(hist[n]))
    /\ pc = "sleep" => (n > 0 /\ InProgressResp(hist[n]))

\* An unknown status ("Completed" is not "completed") was slept on.
C5_Witness ==
    /\ Len(hist) >= 2
    /\ hist[1].status = "Completed"
    /\ hist[2].status = "processing"
    /\ Done /\ outcome = Timeout /\ sleeps >= 2

Max(a, b) == IF a >= b THEN a ELSE b

\* C6 as stated: queries <= max_retries, 0 <= retries <= max_retries and
\* retries = sleeps in every reachable state.
C6_AsStated ==
    /\ queries <= max_retries
    /\ 0 <= retries /\ retries <= max_retries
    /\ retries = sleeps

\* C6, amended: in every reachable state the number of status queries is at
\* most max(max_retries, 0), the counter satisfies
\* 0 <= retries <= max(max_retries, 0), and it equals the number of sleeps
\* completed (a negative max_retries leaves all three at 0).
C6_Counters ==
    /\ queries <= Max(max_retries, 0)
    /\ 0 <= retries /\ retries <= Max(max_retries, 0)
    /\ retries = sleeps
    /\ queries \in {retries, retries + 1}
    /\ queries = Len(hist)

C6_Witness ==
    /\ max_retries = MaxRetriesBound
    /\ retries = max_retries /\ sleeps = max_retries /\ queries = max_retries

\* C7: every call ends in exactly one of success, job failed, missing
\* artifact, timeout or transport error, after at most max_retries loop
\* iterations.
FiveOutcomes ==
    {Returned, JobFailed, UrlNotFound, Timeout, ConnectionError, HTTPError,
     JSONDecodeError}
C7_EndsInFive ==
    /\ Done \/ ENABLED Next
    /\ Done => (outcome \in FiveOutcomes /\ queries <= Max(max_retries, 0))

\* What holds of the code: the call always ends, within the bound.
C7_Terminates == <>Done
C7_EndsBounded ==
    /\ Done \/ ENABLED Next
    /\ Done <=> outcome # "running"
    /\ Done => (outcome \in FiveOutcomes \cup {KeyErrorUrl} /\ queries <= Max(max_retries, 0))

\* ---------------------------------------------------------------------
\* generate_ghost_jwt
\* Text is a sequence of code points, bytes a sequence of 0..255.
\* ---------------------------------------------------------------------
S_alg == <<97, 108, 103>>                       \* "alg"
S_HS256 == <<72, 83, 50, 53, 54>>               \* "HS256"
S_kid == <<107, 105, 100>>                      \* "kid"
S_typ == <<116, 121, 112>>                      \* "typ"
S_JWT == <<74, 87, 84>>                         \* "JWT"
S_iat == <<105, 97, 116>>                       \* "iat"
S_exp == <<101, 120, 112>>                      \* "exp"
S_aud == <<97, 117, 100>>                       \* "aud"
S_admin == <<47, 97, 100, 109, 105, 110, 47>>   \* "/admin/"
HexDigits == <<48, 49, 50, 51, 52, 53, 54, 55, 56, 57, 97, 98, 99, 100, 101, 102>>

Colon == 58
Dot == 46
Pad == 61
Quote == 34
Backslash == 92

StrVal(t) == [t |-> "str", s |-> t, n |-> 0]
IntVal(i) == [t |-> "int", s |-> << >>, n |-> i]

\* str.split(sep): the pieces between the separators, in order.
SepPositions(s, sep) == {i \in 1..Len(s) : s[i] = sep}
\* Position of the k-th separator; 0 before the first piece, Len(s) + 1
\* after the last.
SepAt(s, sep, k) ==
    IF k = 0 THEN 0
    ELSE IF k > Cardinality(SepPositions(s, sep)) THEN Len(s) + 1
    ELSE CHOOSE p \in SepPositions(s, sep) :
           Cardinality({q \in SepPositions(s, sep) : q < p}) = k - 1
Split(s, sep) ==
    [k \in 1..(Cardinality(SepPositions(s, sep)) + 1) |->
        SubSeq(s, SepAt(s, sep, k - 1) + 1, SepAt(s, sep, k) - 1)]

\* bytes.fromhex: ASCII whitespace is skipped between bytes, every byte is
\* two hexadecimal digits; anything else raises ValueError.
HexError == <<-1>>
IsSpace(c) == c \in {32, 9, 10, 11, 12, 13}
IsHexDigit(c) == (c >= 48 /\ c <= 57) \/ (c >= 97 /\ c <= 102) \/ (c >= 65 /\ c <= 70)
HexValue(c) ==
    IF c <= 57 THEN c - 48 ELSE IF c >= 97 THEN c - 87 ELSE c - 55
RECURSIVE FromHexAt(_, _, _)
FromHexAt(s, i, acc) ==
    IF i > Len(s) THEN acc
    ELSE IF IsSpace(s[i]) THEN FromHexAt(s, i + 1, acc)
    ELSE IF i + 1 > Len(s) THEN HexError
    ELSE IF ~IsHexDigit(s[i]) \/ ~IsHexDigit(s[i + 1]) THEN HexError
    ELSE FromHexAt(s, i + 2, Append(acc, 16 * HexValue(s[i]) + HexValue(s[i + 1])))
FromHex(s) == FromHexAt(s, 1, << >>)

\* Variant: five seconds instead of five minutes.
ExpiryFiveSeconds(t) == t + 5

\* exp = iat + 5 * 60
Expiry(t) == t + 5 * 60

\* json.dumps(obj, separators=(",", ":")) with the default ensure_ascii.
Hex4(n) ==
    <<HexDigits[((n \div 4096) % 16) + 1], HexDigits[((n \div 256) % 16) + 1],
      HexDigits[((n \div 16) % 16) + 1], HexDigits[(n % 16) + 1]>>
UEscape(n) == <<Backslash, 117>> \o Hex4(n)
\* Variant: the text is put between the quotes as it is.
JsonEscapeCharRaw(c) == <<c>>

JsonEscapeChar(c) ==
    IF c = Quote THEN <<Backslash, Quote>>
    ELSE IF c = Backslash THEN <<Backslash, Backslash>>
    ELSE IF c = 10 THEN <<Backslash, 110>>
    ELSE IF c = 13 THEN <<Backslash, 114>>
    ELSE IF c = 9 THEN <<Backslash, 116>>
    ELSE IF c = 8 THEN <<Backslash, 98>>
    ELSE IF c = 12 THEN <<Backslash, 102>>
    ELSE IF c >= 32 /\ c <= 126 THEN <<c>>
    ELSE IF c < 65536 THEN UEscape(c)
    ELSE UEscape(55296 + ((c - 65536) \div 1024)) \o UEscape(56320 + ((c - 65536) % 1024))
\* Character by character, left to right.
RECURSIVE JsonEscape(_)
JsonEscape(s) ==
    IF s = << >> THEN << >>
    ELSE IF Len(s) = 1 THEN JsonEscapeChar(s[1])
    ELSE JsonEscape(SubSeq(s, 1, Len(s) \div 2))
         \o JsonEscape(SubSeq(s, Len(s) \div 2 + 1, Len(s)))
JsonString(s) == <<Quote>> \o JsonEscape(s) \o <<Quote>>
RECURSIVE Decimal(_)
Decimal(n) ==
    IF n < 10 THEN <<48 + n>> ELSE Append(Decimal(n \div 10), 48 + (n % 10))
JsonValue(v) == IF v.t = "str" THEN JsonString(v.s) ELSE Decimal(v.n)
ItemSeparator == <<44>>     \* ","
KeySeparator == <<58>>      \* ":"
RECURSIVE JsonMembers(_)
JsonMembers(d) ==
    IF d = << >> THEN << >>
    ELSE JsonString(d[1][1]) \o KeySeparator \o JsonValue(d[1][2])
         \o (IF Len(d) > 1 THEN ItemSeparator ELSE << >>) \o JsonMembers(Tail(d))
JsonDumps(d) == <<123>> \o JsonMembers(d) \o <<125>>

\* str.encode(): UTF-8.
Utf8Char(c) ==
    IF c < 128 THEN <<c>>
    ELSE IF c < 2048 THEN <<192 + (c \div 64), 128 + (c % 64)>>
    ELSE IF c < 65536 THEN <<224 + (c \div 4096), 128 + ((c \div 64) % 64), 128 + (c % 64)>>
    ELSE <<240 + (c \div 262144), 128 + ((c \div 4096) % 64),
           128 + ((c \div 64) % 64), 128 + (c % 64)>>
RECURSIVE Encode(_)
Encode(s) ==
    IF s = << >> THEN << >>
    ELSE IF Len(s) = 1 THEN Utf8Char(s[1])
    ELSE Encode(SubSeq(s, 1, Len(s) \div 2)) \o Encode(SubSeq(s, Len(s) \div 2 + 1, Len(s)))

\* base64.urlsafe_b64encode: the alphabet A-Z a-z 0-9 - _ and "=" padding.
UrlSafeAlphabet ==
    <<65, 66, 67, 68, 69, 70, 71, 72, 73, 74, 75, 76, 77, 78, 79, 80, 81, 82,
      83, 84, 85, 86, 87, 88, 89, 90, 97, 98, 99, 100, 101, 102, 103, 104,
      105, 106, 107, 108, 109, 110, 111, 112, 113, 114, 115, 116, 117, 118,
      119, 120, 121, 122, 48, 49, 50, 51, 52, 53, 54, 55, 56, 57, 45, 95>>
Sextet(v) == UrlSafeAlphabet[v + 1]
RECURSIVE UrlsafeB64Encode(_)
UrlsafeB64Encode(b) ==
    IF Len(b) = 0 THEN << >>
    ELSE IF Len(b) = 1
      THEN <<Sextet(b[1] \div 4), Sextet((b[1] % 4) * 16), Pad, Pad>>
    ELSE IF Len(b) = 2
      THEN <<Sextet(b[1] \div 4), Sextet((b[1] % 4) * 16 + b[2] \div 16),
             Sextet((b[2] % 16) * 4), Pad>>
    ELSE <<Sextet(b[1] \div 4), Sextet((b[1] % 4) * 16 + b[2] \div 16),
           Sextet((b[2] % 16) * 4 + b[3] \div 64), Sextet(b[3] % 64)>>
         \o UrlsafeB64Encode(SubSeq(b, 4, Len(b)))

\* str.rstrip("=")
RECURSIVE RStripPad(_)
RStripPad(s) ==
    IF s # << >> /\ s[Len(s)] = Pad THEN RStripPad(SubSeq(s, 1, Len(s) - 1)) ELSE s

\* Variant: the padding is kept.
base64_url_encode_padded(data) == UrlsafeB64Encode(data)

\* def base64_url_encode(data): urlsafe_b64encode(data).decode().rstrip("=")
base64_url_encode(data) == RStripPad(UrlsafeB64Encode(data))

\* header and payload, in the insertion order of the dict literals
Header(kid) ==
    << <<S_alg, StrVal(S_HS256)>>, <<S_kid, StrVal(kid)>>, <<S_typ, StrVal(S_JWT)>> >>
Payload(i, e) ==
    << <<S_iat, IntVal(i)>>, <<S_exp, IntVal(e)>>, <<S_aud, StrVal(S_admin)>> >>

\* The value of hmac.new(secret_bytes, to_sign, sha256).digest() is one of the
\* 32-byte strings; the hash itself is not computed.
DigestSize == 32
Digests ==
    { [i \in 1..DigestSize |-> 0],
      [i \in 1..DigestSize |-> 255],
      [i \in 1..DigestSize |-> (i * 37 + 11) % 256],
      [i \in 1..DigestSize |-> IF i % 3 = 0 THEN 239 ELSE 251] }

\* Variant: the digest depends on more than the key and the message.
HmacDigestsFresh(table, key, msg) == Digests

\* HMAC-SHA256 is a function of the key and the message whose values are not
\* computed.  hmac_table holds the points computed so far: the same key and
\* message give the same digest again, a new point may give any digest.
HmacDigests(table, key, msg) ==
    LET known == {e \in table : e.key = key /\ e.msg = msg}
    IN IF known # {} THEN {e.digest : e \in known} ELSE Digests

\* line 78 with the encoding of lines 76-77 left out
ToSignUnencoded(kid, i) ==
    Encode(JsonDumps(Header(kid))) \o <<Dot>> \o Encode(JsonDumps(Payload(i, Expiry(i))))
\* lines 76-78: to_sign = f"{header_encoded}.{payload_encoded}".encode()
ToSign(kid, i) ==
    base64_url_encode(Encode(JsonDumps(Header(kid)))) \o <<Dot>>
        \o base64_url_encode(Encode(JsonDumps(Payload(i, Expiry(i)))))

\* lines 76-85: the token from the parsed credential, the clock reading and
\* the digest
BuildToken(kid, i, digest) ==
    LET header_b64 == base64_url_encode(Encode(JsonDumps(Header(kid))))
        payload_b64 == base64_url_encode(Encode(JsonDumps(Payload(i, Expiry(i)))))
        signature_b64 == base64_url_encode(digest)
    IN header_b64 \o <<Dot>> \o payload_b64 \o <<Dot>> \o signature_b64

\* Arguments and clock readings of the call.
IdChars == {97, 34, 92, 233}            \* a  "  \  e-acute
RECURSIVE TextsUpTo(_, _)
TextsUpTo(chars, n) ==
    IF n = 0 THEN {<< >>}
    ELSE LET shorter == TextsUpTo(chars, n - 1)
         IN shorter \cup {Append(t, c) : t \in shorter, c \in chars}
Ids == TextsUpTo(IdChars, MaxIdLen)
Secrets ==
    { << >>,                               \* ""
      <<48, 48>>,                          \* "00"
      <<48, 97, 70, 57>>,                  \* "0aF9"
      <<99, 48, 102, 102, 101, 101>>,      \* "c0ffee"
      <<122, 122>>,                        \* "zz"
      <<48, 102, 48>>,                     \* "0f0"
      <<48, 102, 32, 48, 102>> }           \* "0f 0f"
Credentials ==
    {id \o <<Colon>> \o sec : id \in Ids, sec \in Secrets}
    \cup { << >>,                                    \* ""
           <<110, 111, 99, 111, 108, 111, 110>>,    \* "nocolon"
           <<97, 58, 98, 58, 48, 48>>,               \* "a:b:00"
           <<97, 58, 48, 48, 58>> }                  \* "a:00:"
ClockSeconds == {0, 9, 700, 1700000000, 2147483347}
Clocks == {[sec |-> t, ms |-> m] : t \in ClockSeconds, m \in {0, 999}}
Later(a, b) == a.sec < b.sec \/ (a.sec = b.sec /\ a.ms < b.ms)

InitJwtVars ==
    /\ jpc = "start"
    /\ admin_api_key \in Credentials
    /\ now \in Clocks
    /\ key_id = << >>
    /\ secret_bytes = << >>
    /\ iat = 0
    /\ read_at = [sec |-> 0, ms |-> 0]
    /\ token = << >>
    /\ jerr = "none"
    /\ hmac_table = {}
    /\ jlog = 0
    /\ first_call = NoCall

\* lines 51-54: key_id, secret = admin_api_key.split(":"); bytes.fromhex
ParseCredential ==
    /\ jpc = "start"
    /\ LET parts == Split(admin_api_key, Colon) IN
         IF Len(parts) # 2
           THEN /\ jerr' = "ValueError: unpack"
                /\ jpc' = "done"
                /\ jlog' = jlog + 1
                /\ UNCHANGED <<key_id, secret_bytes>>
           ELSE IF FromHex(parts[2]) = HexError
             THEN /\ jerr' = "ValueError: fromhex"
                  /\ jpc' = "done"
                  /\ jlog' = jlog + 1
                  /\ key_id' = parts[1]
                  /\ UNCHANGED secret_bytes
             ELSE /\ key_id' = parts[1]
                  /\ secret_bytes' = FromHex(parts[2])
                  /\ jpc' = "clock"
                  /\ UNCHANGED <<jerr, jlog>>
    /\ UNCHANGED <<admin_api_key, now, iat, read_at, token, hmac_table, first_call>>
    /\ UNCHANGED <<pollVars, toolVars>>

\* line 58: iat = int(time.time())
ReadClock ==
    /\ jpc = "clock"
    /\ read_at' = now
    /\ iat' = now.sec
    /\ jpc' = "build"
    /\ UNCHANGED <<admin_api_key, now, key_id, secret_bytes, token, jerr, hmac_table,
                   jlog, first_call>>
    /\ UNCHANGED <<pollVars, toolVars>>

\* lines 59-86: the token is built, signed and returned
SignAndReturn ==
    /\ jpc = "build"
    /\ \E digest \in HmacDigests(hmac_table, secret_bytes, ToSign(key_id, iat)) :
         /\ token' = BuildToken(key_id, iat, digest)
         /\ hmac_table' = hmac_table \cup
                {[key |-> secret_bytes, msg |-> ToSign(key_id, iat), digest |-> digest]}
    /\ jpc' = "done"
    /\ UNCHANGED <<admin_api_key, now, key_id, secret_bytes, iat, read_at, jerr, jlog,
                   first_call>>
    /\ UNCHANGED <<pollVars, toolVars>>

\* The wall clock moves on while the call runs.
Tick ==
    /\ jpc \in {"start", "clock", "build"}
    /\ \E t \in Clocks : Later(now, t) /\ now' = t
    /\ UNCHANGED <<jpc, admin_api_key, key_id, secret_bytes, iat, read_at, token, jerr,
                   hmac_table, jlog, first_call>>
    /\ UNCHANGED <<pollVars, toolVars>>

InitJwt == IdlePollVars /\ InitJwtVars /\ IdleToolVars
NextJwt ==
    \/ ParseCredential
    \/ ReadClock
    \/ SignAndReturn
    \/ Tick
SpecJwt == InitJwt /\ [][NextJwt]_vars

\* Two calls of generate_ghost_jwt with the same credential, one after the
\* other in the same process.
TwiceCredentials ==
    { <<97, 58, 99, 48, 102, 102, 101, 101>>,     \* "a:c0ffee"
      <<34, 233, 58, 48, 97, 70, 57>>,            \* "\"e-acute:0aF9"
      <<97, 58, 122, 122>>,                       \* "a:zz"
      <<110, 111, 99, 111, 108, 111, 110>> }      \* "nocolon"
InitJwtTwiceVars ==
    /\ jpc = "start"
    /\ admin_api_key \in TwiceCredentials
    /\ now \in Clocks
    /\ key_id = << >>
    /\ secret_bytes = << >>
    /\ iat = 0
    /\ read_at = [sec |-> 0, ms |-> 0]
    /\ token = << >>
    /\ jerr = "none"
    /\ hmac_table = {}
    /\ jlog = 0
    /\ first_call = NoCall
\* the first call has ended and the second is entered; the locals of the
\* first are gone, the process (its logger, the clock) goes on
CallAgain ==
    /\ jpc = "done"
    /\ ~first_call.made
    /\ first_call' = [made |-> TRUE, token |-> token, read_at |-> read_at, jerr |-> jerr]
    /\ jpc' = "start"
    /\ key_id' = << >>
    /\ secret_bytes' = << >>
    /\ iat' = 0
    /\ read_at' = [sec |-> 0, ms |-> 0]
    /\ token' = << >>
    /\ jerr' = "none"
    /\ UNCHANGED <<admin_api_key, now, hmac_table, jlog>>
    /\ UNCHANGED <<pollVars, toolVars>>
InitJwtTwice == IdlePollVars /\ InitJwtTwiceVars /\ IdleToolVars
NextJwtTwice ==
    \/ NextJwt
    \/ CallAgain
SpecJwtTwice == InitJwtTwice /\ [][NextJwtTwice]_vars

\* ---------------------------------------------------------------------
\* Properties of generate_ghost_jwt
\* ---------------------------------------------------------------------
\* Reading a token back: base64url decoding without padding and a reader of
\* flat JSON objects, written independently of the encoders above.
BadText == <<-1>>
B64Value(c) ==
    IF c >= 65 /\ c <= 90 THEN c - 65
    ELSE IF c >= 97 /\ c <= 122 THEN c - 71
    ELSE IF c >= 48 /\ c <= 57 THEN c + 4
    ELSE IF c = 45 THEN 62
    ELSE IF c = 95 THEN 63
    ELSE -1
RECURSIVE B64UrlDecodeAt(_, _, _)
B64UrlDecodeAt(s, i, acc) ==
    LET left == Len(s) - i + 1
        v(j) == B64Value(s[i + j])
    IN IF left = 0 THEN acc
       ELSE IF left = 1 THEN BadText
       ELSE IF \E j \in 0..((IF left >= 4 THEN 4 ELSE left) - 1) : v(j) < 0 THEN BadText
       ELSE IF left = 2 THEN Append(acc, v(0) * 4 + v(1) \div 16)
       ELSE IF left = 3
         THEN acc \o <<v(0) * 4 + v(1) \div 16, (v(1) % 16) * 16 + v(2) \div 4>>
       ELSE B64UrlDecodeAt(s, i + 4,
              acc \o <<v(0) * 4 + v(1) \div 16, (v(1) % 16) * 16 + v(2) \div 4,
                       (v(2) % 4) * 64 + v(3)>>)
B64UrlDecode(s) == B64UrlDecodeAt(s, 1, << >>)

Fail == [ok |-> FALSE, val |-> << >>, next |-> 0]
HexOf(c) ==
    IF c >= 48 /\ c <= 57 THEN c - 48
    ELSE IF c >= 97 /\ c <= 102 THEN c - 87
    ELSE IF c >= 65 /\ c <= 70 THEN c - 55
    ELSE -1
\* The body of a JSON string from position i on, up to the closing quote.
RECURSIVE ReadStringBody(_, _, _)
ReadStringBody(s, i, acc) ==
    IF i > Len(s) THEN Fail
    ELSE IF s[i] = 34 THEN [ok |-> TRUE, val |-> acc, next |-> i + 1]
    ELSE IF s[i] = 92
      THEN IF i + 1 > Len(s) THEN Fail
           ELSE LET e == s[i + 1] IN
             IF e = 34 \/ e = 92 \/ e = 47 THEN ReadStringBody(s, i + 2, Append(acc, e))
             ELSE IF e = 110 THEN ReadStringBody(s, i + 2, Append(acc, 10))
             ELSE IF e = 114 THEN ReadStringBody(s, i + 2, Append(acc, 13))
             ELSE IF e = 116 THEN ReadStringBody(s, i + 2, Append(acc, 9))
             ELSE IF e = 98 THEN ReadStringBody(s, i + 2, Append(acc, 8))
             ELSE IF e = 102 THEN ReadStringBody(s, i + 2, Append(acc, 12))
             ELSE IF e = 117 /\ i + 5 <= Len(s)
                      /\ \A j \in 2..5 : HexOf(s[i + j]) >= 0
               THEN ReadStringBody(s, i + 6,
                      Append(acc, HexOf(s[i + 2]) * 4096 + HexOf(s[i + 3]) * 256
                                  + HexOf(s[i + 4]) * 16 + HexOf(s[i + 5])))
             ELSE Fail
    ELSE IF s[i] < 32 \/ s[i] > 127 THEN Fail
    ELSE ReadStringBody(s, i + 1, Append(acc, s[i]))
RECURSIVE ReadDigits(_, _, _)
ReadDigits(s, i, n) ==
    IF i <= Len(s) /\ s[i] >= 48 /\ s[i] <= 57
      THEN ReadDigits(s, i + 1, 10 * n + (s[i] - 48))
      ELSE [ok |-> TRUE, val |-> n, next |-> i]
ReadValue(s, i) ==
    IF i > Len(s) THEN Fail
    ELSE IF s[i] = 34
      THEN LET r == ReadStringBody(s, i + 1, << >>)
           IN IF r.ok THEN [ok |-> TRUE, val |-> StrVal(r.val), next |-> r.next] ELSE Fail
    ELSE IF s[i] >= 48 /\ s[i] <= 57
      THEN LET r == ReadDigits(s, i, 0)
           IN [ok |-> TRUE, val |-> IntVal(r.val), next |-> r.next]
    ELSE Fail
\* The members of an object from position i on: "key":value , ... }
RECURSIVE ReadMembers(_, _, _)
ReadMembers(s, i, acc) ==
    IF i > Len(s) \/ s[i] # 34 THEN BadText
    ELSE LET k == ReadStringBody(s, i + 1, << >>) IN
      IF ~k.ok \/ k.next > Len(s) \/ s[k.next] # 58 THEN BadText
      ELSE LET v == ReadValue(s, k.next + 1) IN
        IF ~v.ok \/ v.next > Len(s) THEN BadText
        ELSE IF s[v.next] = 125
          THEN IF v.next = Len(s) THEN Append(acc, <<k.val, v.val>>) ELSE BadText
        ELSE IF s[v.next] = 44
          THEN ReadMembers(s, v.next + 1, Append(acc, <<k.val, v.val>>))
        ELSE BadText
JsonLoads(s) ==
    IF s = BadText \/ Len(s) < 2 \/ s[1] # 123 THEN BadText
    ELSE IF Len(s) = 2 THEN (IF s[2] = 125 THEN << >> ELSE BadText)
    ELSE ReadMembers(s, 2, << >>)

Count(s, c) == Cardinality({i \in 1..Len(s) : s[i] = c})
Segments(t) == Split(t, Dot)
Segment(t, n) == IF Len(Segments(t)) >= n THEN Segments(t)[n] ELSE BadText

\* A credential "id:secret": the text after the first colon is an even
\* number of hexadecimal digits.
FirstColon(s) == CHOOSE i \in 1..Len(s) : s[i] = Colon /\ \A j \in 1..(i - 1) : s[j] # Colon
HasColon(s) == \E i \in 1..Len(s) : s[i] = Colon
IdOf(s) == SubSeq(s, 1, FirstColon(s) - 1)
SecretOf(s) == SubSeq(s, FirstColon(s) + 1, Len(s))
ValidCredential(s) ==
    /\ HasColon(s)
    /\ Len(SecretOf(s)) % 2 = 0
    /\ \A i \in 1..Len(SecretOf(s)) : HexOf(SecretOf(s)[i]) >= 0
JwtDone == jpc = "done"
TokenReturned == JwtDone /\ jerr = "none"
TokenLifetime == 300

\* C8: for every credential "id:secret" with an even-length hexadecimal
\* secret the call returns a token with exactly two '.' separators, three
\* non-empty segments, and no '=' in any segment.
C8_TokenShape ==
    (JwtDone /\ ValidCredential(admin_api_key))
    => /\ jerr = "none"
       /\ Count(token, Dot) = 2
       /\ Len(Segments(token)) = 3
       /\ \A n \in 1..3 : Segments(token)[n] # << >>
       /\ Count(token, Pad) = 0

\* A token whose header, payload and signature each needed padding before
\* it was stripped.
C8_Witness ==
    /\ TokenReturned /\ ValidCredential(admin_api_key)
    /\ Len(JsonDumps(Header(key_id))) % 3 = 1
    /\ Len(JsonDumps(Payload(iat, Expiry(iat)))) % 3 = 2
    /\ secret_bytes # << >>

\* C9: in every token produced, whatever the clock read when it was
\* generated, the payload decodes to iat = that clock reading (in whole
\* seconds), exp = iat + 300 and aud = "/admin/".
C9_Claims ==
    TokenReturned
    => JsonLoads(B64UrlDecode(Segment(token, 2)))
         = << <<S_iat, IntVal(read_at.sec)>>,
              <<S_exp, IntVal(read_at.sec + TokenLifetime)>>,
              <<S_aud, StrVal(S_admin)>> >>

\* The clock moved between the call's entry and its reading, and again
\* before the token was returned; exp has more digits than iat.
C9_Witness ==
    /\ TokenReturned
    /\ read_at.sec = 700 /\ read_at.ms = 999
    /\ Later(read_at, now)

\* C10: for every valid credential the first segment of the token decodes
\* exactly to {"alg":"HS256","kid":<id>,"typ":"JWT"}, in that key order,
\* with kid the part of the credential before the colon.
C10_Header ==
    (JwtDone /\ ValidCredential(admin_api_key))
    => /\ jerr = "none"
       /\ JsonLoads(B64UrlDecode(Segment(token, 1)))
            = << <<S_alg, StrVal(S_HS256)>>,
                 <<S_kid, StrVal(IdOf(admin_api_key))>>,
                 <<S_typ, StrVal(S_JWT)>> >>

\* An id whose characters all need escaping in JSON.
C10_Witness ==
    /\ TokenReturned
    /\ IdOf(admin_api_key) = <<34, 233>>

\* The secret of a valid credential read as bytes, two digits a byte.
HexDecode(s) == [i \in 1..(Len(s) \div 2) |-> HexOf(s[2 * i - 1]) * 16 + HexOf(s[2 * i])]
NoPad(s) == \A i \in 1..Len(s) : s[i] # Pad

\* C11: signature round trip.  For every token returned for a valid
\* credential, HMAC-SHA256 keyed with the hex-decoded secret and taken over
\* the first two segments of the token joined by '.' is a value the call has
\* computed, and its URL-safe base64 text without padding is the third
\* segment of the token.
C11_RoundTrip ==
    (TokenReturned /\ ValidCredential(admin_api_key))
    => LET key == HexDecode(SecretOf(admin_api_key))
           msg == Segment(token, 1) \o <<Dot>> \o Segment(token, 2)
       IN /\ \E e \in hmac_table : e.key = key /\ e.msg = msg
          /\ \A d \in HmacDigests(hmac_table, key, msg) :
                /\ NoPad(Segment(token, 3))
                /\ B64UrlDecode(Segment(token, 3)) = d
C11_Witness ==
    /\ TokenReturned
    /\ ValidCredential(admin_api_key)
    /\ Len(SecretOf(admin_api_key)) = 6
    /\ Len(IdOf(admin_api_key)) = MaxIdLen
    /\ hmac_table # {}

\* C12: every call whose credential has no colon (the empty string
\* included) or whose secret is not an even-length hexadecimal string ends
\* with an error and returns no token.
C12_AsStated ==
    (JwtDone /\ ~ValidCredential(admin_api_key))
    => (jerr # "none" /\ token = << >>)

\* ---------------------------------------------------------------------
\* Further properties of download_video
\* ---------------------------------------------------------------------
\* A status query that met a network failure or a status code outside 2xx.
TransportError(r) == r.net = "fail" \/ r.http < 200 \/ r.http > 299

\* C16: a transport-level error on a status query is terminal.  Once a
\* status query has met a network failure or a non-2xx code it is the last
\* query, and the call goes on to no sleep and no fetch: it ends with a
\* failure after the sleeps that came before that query.
C16_TransportTerminal ==
    \A k \in 1..Len(hist) :
        TransportError(hist[k])
        => /\ k = Len(hist)
           /\ pc \in {"classify", "done"}
           /\ sleeps = k - 1
           /\ fetches = 0
           /\ Done => outcome \notin {Returned, Timeout}

\* C20 as stated: a call that timed out has performed max_retries - 1 sleeps.
C20_AsStated ==
    (Done /\ outcome = Timeout /\ max_retries >= 1) => sleeps = max_retries - 1

\* C20: download_video sleeps after every in-progress response, the one of
\* its last attempt included: a call that timed out has performed exactly
\* max(max_retries, 0) sleeps, as many as status queries, and each of them
\* lasted the poll interval.
C20_SleepsAfterLast ==
    (Done /\ outcome = Timeout)
    => /\ sleeps = Max(max_retries, 0)
       /\ sleeps = queries
       /\ waited = sleeps * poll_interval
       /\ AllInProgress(hist, Len(hist))
C20_Witness ==
    /\ Done
    /\ outcome = Timeout
    /\ max_retries = MaxRetriesBound
    /\ sleeps = MaxRetriesBound
    /\ InProgressResp(hist[Len(hist)])

\* ---------------------------------------------------------------------
\* generate_image_from_text (servers/media)
\* ---------------------------------------------------------------------
\* Values are texts; PyNone is None and the default 1 of number_of_images is
\* the text "1".
ImageServers == {"generate_image_mcp_server", "vertex_mcp_server"}
Prompts == {"", "A beautiful sunset over mountains", "a cat"}
SavePaths == {"", "generated_images/sunset.png", "sunset.png"}
\* save_to_file is Optional[str] = None in generate_image_mcp_server and a
\* required str in vertex_mcp_server
SaveArgs(server) ==
    IF server = "generate_image_mcp_server" THEN SavePaths \cup {PyNone} ELSE SavePaths
\* model.generate_images raises, returns no image, or returns images
ImageResponses ==
    { [raises |-> TRUE, images |-> << >>],
      NoImages,
      [raises |-> FALSE, images |-> <<"image-1">>],
      [raises |-> FALSE, images |-> <<"image-1", "image-2">>] }
Truthy(v) == v \notin {PyNone, ""}

\* def generate_image(self, prompt, number_of_images=1, safety_settings=None,
\*                    save_path=None)
GenerateImageParams == <<"prompt", "number_of_images", "safety_settings", "save_path">>
GenerateImageDefaults ==
    [prompt |-> PyNone, number_of_images |-> "1", safety_settings |-> PyNone,
     save_path |-> PyNone]
\* Python binds positional arguments to the parameters in order; the others
\* keep their defaults.
BindPositional(args) ==
    [p \in {GenerateImageParams[i] : i \in 1..Len(GenerateImageParams)} |->
        LET i == CHOOSE j \in 1..Len(GenerateImageParams) : GenerateImageParams[j] = p
        IN IF i <= Len(args) THEN args[i] ELSE GenerateImageDefaults[p]]
\* the call the tool makes: generator.generate_image(prompt, save_to_file),
\* or generator.generate_image(prompt) in the branch without a file
GenerateImageArgs(server, p, path) ==
    IF server = "generate_image_mcp_server" /\ ~Truthy(path)
      THEN <<p>>
      ELSE <<p, path>>

InitImgVars ==
    /\ ipc = "call"
    /\ image_server \in ImageServers
    /\ prompt \in Prompts
    /\ save_to_file \in SaveArgs(image_server)
    /\ number_of_images = PyNone
    /\ save_path = PyNone
    /\ response = NoImages
    /\ written = NoFile
    /\ image_result = [kind |-> "running"]

ImageRaise(e) ==
    /\ image_result' = [kind |-> "raised", error |-> e]
    /\ ipc' = "done"

\* the tool calls generate_image
CallGenerateImage ==
    /\ ipc = "call"
    /\ LET bound == BindPositional(GenerateImageArgs(image_server, prompt, save_to_file))
       IN /\ number_of_images' = bound.number_of_images
          /\ save_path' = bound.save_path
    /\ ipc' = "generate"
    /\ UNCHANGED <<image_server, prompt, save_to_file, response, written, image_result>>
    /\ UNCHANGED <<pollVars, jwtVars, ghostVars, pairVars>>

\* generate_image: the request to the model and the test of its response
GenerateImages ==
    /\ ipc = "generate"
    /\ \E r \in ImageResponses :
         /\ response' = r
         /\ IF r.raises THEN ImageRaise("model error")
            ELSE IF r.images = << >> THEN ImageRaise("No image was generated")
            ELSE ipc' = "save" /\ image_result' = image_result
    /\ UNCHANGED <<image_server, prompt, save_to_file, number_of_images, save_path,
                   written>>
    /\ UNCHANGED <<pollVars, jwtVars, ghostVars, pairVars>>

\* generate_image saves the first image when save_path is set and returns the
\* path, or returns the image object; the tool returns it under "file_path",
\* or base64-encodes it (an Image is not bytes: TypeError) in the other branch
SaveAndReturn ==
    /\ ipc = "save"
    /\ LET returned == IF Truthy(save_path) THEN save_path ELSE response.images[1]
       IN /\ written' = IF Truthy(save_path)
                          THEN [path |-> save_path, bytes |-> response.images[1]]
                          ELSE written
          /\ IF image_server = "generate_image_mcp_server" /\ ~Truthy(save_to_file)
               THEN ImageRaise("TypeError: a bytes-like object is required")
               ELSE /\ image_result' = [kind |-> "returned", file_path |-> returned]
                    /\ ipc' = "done"
    /\ UNCHANGED <<image_server, prompt, save_to_file, number_of_images, save_path,
                   response>>
    /\ UNCHANGED <<pollVars, jwtVars, ghostVars, pairVars>>

InitImage == IdlePollVars /\ IdleJwtVars /\ InitImgVars /\ IdleGhostVars /\ IdlePairVars
NextImage ==
    \/ CallGenerateImage
    \/ GenerateImages
    \/ SaveAndReturn
SpecImage == InitImage /\ [][NextImage]_vars

\* C18: when generate_image_from_text is called with a save_to_file path and
\* succeeds, save_to_file reached generate_image as its save_path, the image
\* bytes are written to save_to_file, and the tool returns
\* {"file_path": save_to_file}.
C18_SavedToFile ==
    (ipc = "done" /\ Truthy(save_to_file) /\ image_result.kind = "returned")
    => /\ save_path = save_to_file
       /\ written = [path |-> save_to_file, bytes |-> response.images[1]]
       /\ image_result.file_path = save_to_file

\* ---------------------------------------------------------------------
\* The tools of the Ghost server (servers/blog/ghost_mcp_server.py)
\* ---------------------------------------------------------------------
MaxChildren == 2

GhostTools ==
    {"create_ghost_post", "list_recent_posts", "edit_ghost_post",
     "upload_base64_image", "upload_image_from_url", "upload_local_image",
     "add_image_to_post", "delete_ghost_post", "upload_video_to_ghost"}

\* The body of a tool is the sequence of its steps that read the
\* configuration, build a token, block on I/O, call another tool or return.
Step(op, dest, method, path, timeout, callee) ==
    [op |-> op, dest |-> dest, method |-> method, path |-> path,
     timeout |-> timeout, callee |-> callee]
Validate == Step("validate", "", "", "", 0, "")
Config == Step("config", "", "", "", 0, "")
Jwt == Step("jwt", "", "", "", 0, "")
\* requests.<method>(...) followed by raise_for_status() and the reading of
\* the body; timeout 0 stands for no timeout argument
Req(dest, method, path, timeout) == Step("request", dest, method, path, timeout, "")
Call(callee) == Step("call", "", "", "", 0, callee)
Build == Step("build", "", "", "", 0, "")
OpenLocal == Step("open", "", "", "", 0, "")
WriteTemp == Step("write_temp", "", "", "", 0, "")
RemoveTemp == Step("remove_temp", "", "", "", 0, "")
CheckMedia == Step("check_media", "", "", "", 0, "")
Return == Step("return", "", "", "", 0, "")

create_ghost_post == <<Config, Jwt, Req("admin", "POST", "posts/?source=html", 30), Return>>
list_recent_posts == <<Config, Jwt, Req("admin", "GET", "posts/?limit", 0), Return>>
\* Variant: the post is updated before the video is uploaded.
edit_ghost_post_update_first(a) ==
    <<Config, Jwt, Req("admin", "GET", "posts/{post_id}/", 0), Build,
      Req("admin", "PUT", "posts/{post_id}/?source=html", 0)>>
    \o (IF a.video THEN <<Call("upload_video_to_ghost")>> ELSE << >>)
    \o <<Return>>

edit_ghost_post(a) ==
    <<Config, Jwt, Req("admin", "GET", "posts/{post_id}/", 0)>>
    \o (IF a.video THEN <<Call("upload_video_to_ghost")>> ELSE << >>)
    \o <<Build, Req("admin", "PUT", "posts/{post_id}/?source=html", 0), Return>>
upload_base64_image == <<Config, Jwt, Req("admin", "POST", "images/upload/", 0), Return>>
upload_image_from_url == <<Req("web", "GET", "{image_url}", 0), Call("upload_base64_image"), Return>>
upload_local_image ==
    <<Config, Jwt, OpenLocal, Req("admin", "POST", "images/upload/", 0), Return>>
\* lines 721-728: the upload tool add_image_to_post calls
UploadTool(image) ==
    IF image = "http" THEN "upload_image_from_url"
    ELSE IF image = "local" THEN "upload_local_image"
    ELSE "upload_base64_image"
add_image_to_post(a) ==
    <<Validate, Config, Jwt, Req("admin", "GET", "posts/{post_id}/", 0),
      Call(UploadTool(a.image)), Build,
      Req("admin", "PUT", "posts/{post_id}/?source=html", 0), Return>>
\* Variant: the post is deleted without the verification read.
delete_ghost_post_unverified ==
    <<Config, Jwt, Req("admin", "DELETE", "posts/{post_id}/", 0), Return>>

delete_ghost_post ==
    <<Config, Jwt, Req("admin", "GET", "posts/{post_id}/", 0),
      Req("admin", "DELETE", "posts/{post_id}/", 0), Return>>
\* Variant: the status is queried a second time.
upload_video_to_ghost_polling ==
    <<Config, Jwt, Req("heygen", "GET", "v1/video_status.get", 0),
      Req("heygen", "GET", "v1/video_status.get", 0),
      Req("web", "GET", "{video_url}", 0), WriteTemp,
      Req("admin", "POST", "media/upload/", 0), RemoveTemp, CheckMedia, Return>>

upload_video_to_ghost ==
    <<Config, Jwt, Req("heygen", "GET", "v1/video_status.get", 0),
      Req("web", "GET", "{video_url}", 0), WriteTemp,
      Req("admin", "POST", "media/upload/", 0), RemoveTemp, CheckMedia, Return>>
Body(t, a) ==
    CASE t = "create_ghost_post" -> create_ghost_post
      [] t = "list_recent_posts" -> list_recent_posts
      [] t = "edit_ghost_post" -> edit_ghost_post(a)
      [] t = "upload_base64_image" -> upload_base64_image
      [] t = "upload_image_from_url" -> upload_image_from_url
      [] t = "upload_local_image" -> upload_local_image
      [] t = "add_image_to_post" -> add_image_to_post(a)
      [] t = "delete_ghost_post" -> delete_ghost_post
      [] t = "upload_video_to_ghost" -> upload_video_to_ghost

\* Variant: every tool turns its failures into a result with isError.
HandlerAlwaysResult(t) == "isError"

\* What the except clauses of a tool do with an exception: return a result
\* with "isError": True, or log and re-raise.
Handler(t) ==
    IF t \in {"list_recent_posts", "edit_ghost_post", "add_image_to_post",
              "delete_ghost_post", "upload_video_to_ghost"}
      THEN "isError"
      ELSE "reraise"

\* An exception raised in the innermost invocation: each invocation either
\* re-raises it to its caller or returns an isError result, and a caller that
\* is handed an isError result raises in turn (edit_ghost_post, lines
\* 340-341).  The value is how the outermost tool ends.
RECURSIVE Unwind(_, _)
Unwind(st, isErrorResult) ==
    IF st = << >>
      THEN IF isErrorResult
             THEN [kind |-> "returned", isError |-> TRUE]
             ELSE [kind |-> "raised", isError |-> FALSE]
      ELSE LET callers == SubSeq(st, 1, Len(st) - 1)
           IN IF isErrorResult
                THEN Unwind(st, FALSE)
                ELSE Unwind(callers, Handler(st[Len(st)].tool) = "isError")

\* Variant: the headers carry no Accept-Version.
GhostHeadersNoVersion(tok) ==
    [Authorization |-> <<"Ghost", tok>>, AcceptVersion |-> ""]

\* headers = {"Authorization": f"Ghost {token}", "Accept-Version": "v5.0"}
GhostHeaders(tok) ==
    [Authorization |-> <<"Ghost", tok>>, AcceptVersion |-> "v5.0"]
NoAuth == [Authorization |-> <<"", 0>>, AcceptVersion |-> ""]

\* Variant: a token built earlier in the process is handed out again.
IssueTokenCached(toks, t, key) ==
    IF toks # << >> THEN toks
    ELSE Append(toks, [iat |-> t, exp |-> Expiry(t), key |-> key])

\* token = generate_ghost_jwt(admin_api_key): a new token whose claims are
\* read from the clock at the call
IssueToken(toks, t, key) == Append(toks, [iat |-> t, exp |-> Expiry(t), key |-> key])

\* Seconds a blocking call may take: a moment, or longer than the lifetime of
\* a token.  A timeout bounds it.
Durations(timeout) == {d \in {1, 400} : timeout = 0 \/ d <= timeout}
\* A request ends with a 2xx response of the expected shape, a response
\* raise_for_status() rejects, a network failure, or a 2xx response whose
\* body fails the test the code makes on it.
RequestOutcomes == {"ok", "HTTPError", "ConnectionError", "bad body"}

\* str.lower() on the ASCII letters
Lower(str) == [i \in 1..Len(str) |-> IF str[i] >= 65 /\ str[i] <= 90 THEN str[i] + 32 ELSE str[i]]
\* Variant: the position is compared as given.
PositionIsTopExact(p) == p = S_top
\* video_position.lower() == "top" / image_position.lower() == "top"
PositionIsTop(p) == Lower(p) = S_top
Insert(card, existing, position) ==
    IF PositionIsTop(position) THEN <<card>> \o existing ELSE existing \o <<card>>

NoUpdate == [ok |-> FALSE, title |-> "", status |-> "", children |-> << >>]
\* lines 359-410 of edit_ghost_post: the update built from the current post
EditUpdate(post, a) ==
    LET lexical == post.lexical
        update(children) ==
            [ok |-> TRUE,
             title |-> IF a.title # PyNone THEN a.title ELSE post.title,
             status |-> IF a.status # PyNone THEN a.status ELSE post.status,
             children |-> children]
    IN IF a.video
         THEN \* an unreadable document is replaced by {}, a missing root
              \* by one with no children
              IF lexical.lex # "object" \/ ~lexical.root
                THEN update(Insert("video", << >>, a.position))
              ELSE IF lexical.children.has = "null" THEN NoUpdate
              ELSE update(Insert("video", lexical.children.list, a.position))
         ELSE \* line 397: json.loads outside any inner try
              IF lexical.lex \in {"null", "garbage"} THEN NoUpdate
              ELSE update(lexical.children.list)
\* lines 741-790 of add_image_to_post
AddImageUpdate(post, a) ==
    LET lexical == post.lexical
        update(children) ==
            [ok |-> TRUE, title |-> post.title, status |-> post.status,
             children |-> children]
    IN IF lexical.lex \in {"null", "garbage"} THEN NoUpdate
       ELSE IF lexical.lex = "absent" \/ ~lexical.root
         THEN update(Insert("image", << >>, a.position))
       ELSE IF lexical.children.has = "null" THEN NoUpdate
       ELSE update(Insert("image", lexical.children.list, a.position))

\* Calls of the tools: the configuration, the arguments, the stored post.
Envs ==
    { FullEnv,
      [FullEnv EXCEPT !.url = FALSE],
      [FullEnv EXCEPT !.key = "missing"],
      [FullEnv EXCEPT !.key = "malformed"],
      [FullEnv EXCEPT !.heygen = FALSE] }
Positions ==
    { S_top,                           \* "top"
      <<84, 79, 80>>,                  \* "TOP"
      <<84, 111, 112>>,                \* "Top"
      <<98, 111, 116, 116, 111, 109>>, \* "bottom"
      <<32, 116, 111, 112>> }          \* " top"
ToolArgs ==
    {DefaultArgs(t) : t \in GhostTools \ {"edit_ghost_post", "add_image_to_post"}}
    \cup { [tool |-> "edit_ghost_post", video |-> v, image |-> "none", position |-> p,
            title |-> n[1], status |-> n[2]] :
              v \in BOOLEAN, p \in Positions,
              n \in {<<PyNone, PyNone>>, <<"New title", "published">>} }
    \cup { [tool |-> "add_image_to_post", video |-> FALSE, image |-> i, position |-> p,
            title |-> PyNone, status |-> PyNone] :
              i \in {"none", "both", "http", "local", "base64"}, p \in Positions }
Nodes == {"paragraph", "heading"}
Lexicals ==
    { NoLexical,
      [NoLexical EXCEPT !.lex = "null"],
      [NoLexical EXCEPT !.lex = "garbage"],
      [NoLexical EXCEPT !.lex = "object"],
      [lex |-> "object", root |-> TRUE, children |-> NoChildren],
      [lex |-> "object", root |-> TRUE, children |-> [has |-> "null", list |-> << >>]] }
    \cup { [lex |-> "object", root |-> TRUE, children |-> [has |-> "list", list |-> l]] :
              l \in TextsUpTo(Nodes, MaxChildren) }
Posts == {[title |-> "Old title", status |-> st, lexical |-> l] :
             st \in {"draft", "published"}, l \in Lexicals}

\* a tool invocation at its first step
Frame(n, t) ==
    [id |-> n, tool |-> t, ip |-> 1, tok |-> 0, post |-> DefaultPost,
     update |-> NoUpdate, ret |-> "none"]

InitGhostVars ==
    /\ gargs \in ToolArgs
    /\ genv \in Envs
    /\ gpost \in (IF gargs.tool \in {"edit_ghost_post", "add_image_to_post"}
                   THEN Posts ELSE {DefaultPost})
    /\ gstack = <<Frame(1, gargs.tool)>>
    /\ gcalls = 1
    /\ gclock = 0
    /\ gtokens = << >>
    /\ greqs = << >>
    /\ gtemp = "absent"
    /\ gresult = [kind |-> "running", isError |-> FALSE]

Top == gstack[Len(gstack)]
CurStep == Body(Top.tool, gargs)[Top.ip]
At(op) == gstack # << >> /\ CurStep.op = op
\* the innermost invocation goes on to its next step as frame f
GoOn(f) ==
    /\ gstack' = [gstack EXCEPT ![Len(gstack)] = [f EXCEPT !.ip = @ + 1]]
    /\ gresult' = gresult
\* the innermost invocation raises
GhostRaise ==
    /\ gstack' = << >>
    /\ gresult' = Unwind(gstack, FALSE)

\* add_image_to_post, lines 693-696
GhostValidate ==
    /\ At("validate")
    /\ IF gargs.image \in {"none", "both"} THEN GhostRaise ELSE GoOn(Top)
    /\ UNCHANGED <<gcalls, genv, gargs, gpost, gclock, gtokens, greqs, gtemp>>
    /\ UNCHANGED <<pollVars, jwtVars, imgVars, pairVars>>

\* the test of the environment variables (e.g. lines 120-124, 903-908)
GhostConfig ==
    /\ At("config")
    /\ IF /\ genv.url
          /\ genv.key # "missing"
          /\ (Top.tool = "upload_video_to_ghost" => genv.heygen)
         THEN GoOn(Top)
         ELSE GhostRaise
    /\ UNCHANGED <<gcalls, genv, gargs, gpost, gclock, gtokens, greqs, gtemp>>
    /\ UNCHANGED <<pollVars, jwtVars, imgVars, pairVars>>

\* token = generate_ghost_jwt(admin_api_key) (e.g. lines 127, 317, 911)
GhostJwt ==
    /\ At("jwt")
    /\ IF genv.key = "malformed"
         THEN GhostRaise /\ gtokens' = gtokens
         ELSE /\ gtokens' = IssueToken(gtokens, gclock, genv.key)
              /\ GoOn([Top EXCEPT !.tok = Len(IssueToken(gtokens, gclock, genv.key))])
    /\ UNCHANGED <<gcalls, genv, gargs, gpost, gclock, greqs, gtemp>>
    /\ UNCHANGED <<pollVars, jwtVars, imgVars, pairVars>>

\* one requests.get / post / put / delete with the test of its response
GhostRequest ==
    /\ At("request")
    /\ \E d \in Durations(CurStep.timeout) : gclock' = gclock + d
    /\ \E o \in RequestOutcomes :
         /\ greqs' = Append(greqs,
               [inv |-> Top.id, tool |-> Top.tool, dest |-> CurStep.dest,
                method |-> CurStep.method, path |-> CurStep.path,
                headers |-> IF CurStep.dest = "admin" THEN GhostHeaders(Top.tok) ELSE NoAuth,
                sent_at |-> gclock,
                body |-> IF CurStep.method = "PUT" THEN Top.update ELSE NoUpdate,
                outcome |-> o])
         /\ IF o = "ok"
              THEN GoOn(IF CurStep.method = "GET" /\ CurStep.dest = "admin"
                          THEN [Top EXCEPT !.post = gpost] ELSE Top)
            ELSE IF o = "bad body" /\ CurStep.path = "media/upload/"
              THEN \* a JSON body without "media" is found after the file is
                   \* removed
                   GoOn([Top EXCEPT !.ret = "bad body"])
            ELSE GhostRaise
    /\ UNCHANGED <<gcalls, genv, gargs, gpost, gtokens, gtemp>>
    /\ UNCHANGED <<pollVars, jwtVars, imgVars, pairVars>>

\* a tool calls another tool (lines 339, 598, 723-728)
GhostCall ==
    /\ At("call")
    /\ gcalls' = gcalls + 1
    /\ gstack' = Append(gstack, Frame(gcalls + 1, CurStep.callee))
    /\ UNCHANGED <<genv, gargs, gpost, gclock, gtokens, greqs, gtemp, gresult>>
    /\ UNCHANGED <<pollVars, jwtVars, imgVars, pairVars>>

\* the update of the post is built from the post read before
GhostBuild ==
    /\ At("build")
    /\ LET update == IF Top.tool = "edit_ghost_post"
                       THEN EditUpdate(Top.post, gargs)
                       ELSE AddImageUpdate(Top.post, gargs)
       IN IF update.ok THEN GoOn([Top EXCEPT !.update = update]) ELSE GhostRaise
    /\ UNCHANGED <<gcalls, genv, gargs, gpost, gclock, gtokens, greqs, gtemp>>
    /\ UNCHANGED <<pollVars, jwtVars, imgVars, pairVars>>

\* upload_local_image, line 635: open(file_path, 'rb')
GhostOpenLocal ==
    /\ At("open")
    /\ \E exists \in BOOLEAN : IF exists THEN GoOn(Top) ELSE GhostRaise
    /\ UNCHANGED <<gcalls, genv, gargs, gpost, gclock, gtokens, greqs, gtemp>>
    /\ UNCHANGED <<pollVars, jwtVars, imgVars, pairVars>>

\* upload_video_to_ghost, lines 941-947 and 965: the temporary file
GhostTempFile ==
    /\ At("write_temp") \/ At("remove_temp")
    /\ gtemp' = IF CurStep.op = "write_temp" THEN "present" ELSE "absent"
    /\ GoOn(Top)
    /\ UNCHANGED <<gcalls, genv, gargs, gpost, gclock, gtokens, greqs>>
    /\ UNCHANGED <<pollVars, jwtVars, imgVars, pairVars>>

\* upload_video_to_ghost, lines 967-978
GhostCheckMedia ==
    /\ At("check_media")
    /\ IF Top.ret = "bad body" THEN GhostRaise ELSE GoOn(Top)
    /\ UNCHANGED <<gcalls, genv, gargs, gpost, gclock, gtokens, greqs, gtemp>>
    /\ UNCHANGED <<pollVars, jwtVars, imgVars, pairVars>>

\* a tool returns its result, to its caller or to the host
GhostReturn ==
    /\ At("return")
    /\ IF Len(gstack) = 1
         THEN /\ gstack' = << >>
              /\ gresult' = [kind |-> "returned", isError |-> FALSE]
         ELSE /\ gstack' = [SubSeq(gstack, 1, Len(gstack) - 1) EXCEPT
                               ![Len(gstack) - 1].ip = @ + 1]
              /\ gresult' = gresult
    /\ UNCHANGED <<gcalls, genv, gargs, gpost, gclock, gtokens, greqs, gtemp>>
    /\ UNCHANGED <<pollVars, jwtVars, imgVars, pairVars>>

InitGhost == IdlePollVars /\ IdleJwtVars /\ IdleImgVars /\ InitGhostVars /\ IdlePairVars
NextGhost ==
    \/ GhostValidate
    \/ GhostConfig
    \/ GhostJwt
    \/ GhostRequest
    \/ GhostCall
    \/ GhostBuild
    \/ GhostOpenLocal
    \/ GhostTempFile
    \/ GhostCheckMedia
    \/ GhostReturn
SpecGhost == InitGhost /\ [][NextGhost]_vars

\* ---------------------------------------------------------------------
\* Properties of the Ghost tools
\* ---------------------------------------------------------------------
GhostDone == gstack = << >> /\ gresult.kind # "idle"
AdminReqs == {i \in 1..Len(greqs) : greqs[i].dest = "admin"}
TokenOf(i) == greqs[i].headers.Authorization[2]

\* C13 as stated: no token is attached to more than one outbound request.
C13_AsStated ==
    \A i, j \in AdminReqs : TokenOf(i) = TokenOf(j) => i = j

\* C13: a tool invocation builds one token and attaches it to each of its
\* own admin-API requests, at most two (the read of the post and the PUT or
\* DELETE that follows); a tool it calls builds a token of its own.  Two
\* admin-API requests carry the same token exactly when the same invocation
\* sent them.
C13_OneTokenPerInvocation ==
    /\ \A i, j \in AdminReqs :
          (TokenOf(i) = TokenOf(j)) <=> (greqs[i].inv = greqs[j].inv)
    /\ \A i \in AdminReqs : Cardinality({j \in AdminReqs : TokenOf(j) = TokenOf(i)}) <= 2
    /\ Len(gtokens) <= gcalls
C13_Witness ==
    /\ GhostDone
    /\ gresult = [kind |-> "returned", isError |-> FALSE]
    /\ \E i, j, k \in AdminReqs :
          i < j /\ j < k /\ TokenOf(i) = TokenOf(k) /\ TokenOf(i) # TokenOf(j)

\* C14: no admin-API request is sent after the expiry of the token it
\* carries, however long the calls before it took.
C14_NeverExpired ==
    \A i \in AdminReqs :
        /\ TokenOf(i) \in 1..Len(gtokens)
        /\ greqs[i].sent_at <= gtokens[TokenOf(i)].exp

\* C15: every admin-API request carries Authorization "Ghost <token>", the
\* token being one generate_ghost_jwt returned for the configured key before
\* the request was sent, and Accept-Version "v5.0".
C15_Headers ==
    \A i \in AdminReqs :
        /\ greqs[i].headers.Authorization[1] = "Ghost"
        /\ TokenOf(i) \in 1..Len(gtokens)
        /\ gtokens[TokenOf(i)].key = genv.key
        /\ gtokens[TokenOf(i)].iat <= greqs[i].sent_at
        /\ greqs[i].headers.AcceptVersion = "v5.0"
C15_Witness ==
    /\ GhostDone
    /\ \E i, j \in AdminReqs :
          /\ greqs[i].tool = "add_image_to_post"
          /\ greqs[j].tool = "upload_base64_image"
    /\ \E i \in AdminReqs : greqs[i].method = "PUT"

\* C17: a tool call that fails ends with a result carrying isError = true;
\* no failure leaves the tool as an exception.
C17_StructuredFailure ==
    GhostDone => gresult.kind = "returned"

\* The children of the stored post's lexical root, and "top" in any case,
\* read without the operators of the model.
ExistingChildren(post) ==
    IF post.lexical.lex = "object" /\ post.lexical.root /\ post.lexical.children.has = "list"
      THEN post.lexical.children.list
      ELSE << >>
TopAnyCase(p) ==
    /\ Len(p) = 3
    /\ p[1] \in {116, 84}
    /\ p[2] \in {111, 79}
    /\ p[3] \in {112, 80}
Expected(card) ==
    IF TopAnyCase(gargs.position)
      THEN <<card>> \o ExistingChildren(gpost)
      ELSE ExistingChildren(gpost) \o <<card>>

\* C19: the update add_image_to_post sends keeps the existing children of
\* the lexical root in order, with exactly one image card added, first when
\* image_position is "top" in any letter case and last otherwise, and its
\* title and status are those of the current post; the update
\* edit_ghost_post sends for a video does the same with the video card and
\* video_position.
C19_ContentPreserved ==
    \A i \in 1..Len(greqs) :
        greqs[i].method = "PUT"
        => /\ greqs[i].tool = "add_image_to_post"
              => /\ greqs[i].body.children = Expected("image")
                 /\ greqs[i].body.title = gpost.title
                 /\ greqs[i].body.status = gpost.status
           /\ (greqs[i].tool = "edit_ghost_post" /\ gargs.video)
              => greqs[i].body.children = Expected("video")
C19_Witness ==
    /\ \E i \in 1..Len(greqs) :
          /\ greqs[i].method = "PUT"
          /\ greqs[i].tool = "add_image_to_post"
          /\ Len(greqs[i].body.children) = MaxChildren + 1
          /\ greqs[i].body.children[1] = "image"
    /\ gargs.position = <<84, 79, 80>>
    /\ gpost.status = "published"

\* ---------------------------------------------------------------------
\* Resources and edge cases of download_video
\* ---------------------------------------------------------------------
\* C21: once a status query has returned "completed" it is the last one: the
\* call makes no further query and no sleep, whatever becomes of the fetch
\* and the file write.  At most one artifact fetch is made, and only after a
\* "completed" response with a non-empty video_url.
C21_NoPollingAfterCompleted ==
    /\ \A k \in 1..Len(hist) :
          CompletedResp(hist[k])
          => /\ k = Len(hist)
             /\ queries = k
             /\ sleeps = k - 1
             /\ pc \in {"classify", "fetch", "write", "done"}
    /\ fetches <= 1
    /\ fetches = 1
       => /\ hist # << >>
          /\ CompletedResp(hist[Len(hist)])
          /\ UrlPresent(hist[Len(hist)])
C21_Witness ==
    /\ Done
    /\ outcome = HTTPError
    /\ fetches = 1
    /\ Len(hist) = MaxRetriesBound
    /\ sleeps = MaxRetriesBound - 1

C29_NoAttempts ==
    max_retries <= 0
    => /\ queries = 0
       /\ sleeps = 0
       /\ fetches = 0
       /\ hist = << >>
       /\ pc \in {"loop", "done"}
       /\ Done => outcome = Timeout
C29_Witness ==
    /\ Done
    /\ max_retries = -1
    /\ outcome = Timeout

\* ---------------------------------------------------------------------
\* Ordering and cleanup in the Ghost tools
\* ---------------------------------------------------------------------
IsErrorResult == [kind |-> "returned", isError |-> TRUE]
Reqs == 1..Len(greqs)
MediaUpload(i) ==
    greqs[i].tool = "upload_video_to_ghost" /\ greqs[i].path = "media/upload/"
StatusQueryOf(i) ==
    greqs[i].tool = "upload_video_to_ghost" /\ greqs[i].dest = "heygen"

\* C25: when a call of upload_video_to_ghost has returned, the temporary
\* file it wrote no longer exists.
C25_TempRemoved ==
    GhostDone => gtemp = "absent"

\* C26: edit_ghost_post with a video_id sends its PUT only after the upload
\* of the video to the media library succeeded; when upload_video_to_ghost
\* fails in any way, edit_ghost_post sends no PUT and returns an isError
\* result.
C26_UpdateAfterUpload ==
    (gargs.tool = "edit_ghost_post" /\ gargs.video)
    => /\ \A i \in Reqs :
             greqs[i].method = "PUT"
             => /\ \E j \in 1..(i - 1) : MediaUpload(j) /\ greqs[j].outcome = "ok"
                /\ \A j \in 1..(i - 1) : greqs[j].outcome = "ok"
       /\ (GhostDone /\ ~\E j \in Reqs : MediaUpload(j) /\ greqs[j].outcome = "ok")
          => /\ gresult = IsErrorResult
             /\ \A i \in Reqs : greqs[i].method # "PUT"
C26_Witness ==
    /\ gargs.tool = "edit_ghost_post"
    /\ gargs.video
    /\ GhostDone
    /\ gresult = IsErrorResult
    /\ \E j \in Reqs : MediaUpload(j) /\ greqs[j].outcome = "HTTPError"

\* C27: delete_ghost_post sends at most one DELETE, and only as its second
\* request, after the GET of the same post answered 2xx with a post; when
\* that GET fails no DELETE is sent and the result carries isError.
C27_DeleteAfterVerify ==
    gargs.tool = "delete_ghost_post"
    => /\ Cardinality({i \in Reqs : greqs[i].method = "DELETE"}) <= 1
       /\ \A i \in Reqs :
             greqs[i].method = "DELETE"
             => /\ i = 2
                /\ greqs[1].method = "GET"
                /\ greqs[1].dest = "admin"
                /\ greqs[1].path = greqs[i].path
                /\ greqs[1].outcome = "ok"
       /\ (greqs # << >> /\ greqs[1].outcome # "ok")
          => /\ Len(greqs) = 1
             /\ gresult = IsErrorResult
C27_Witness ==
    /\ gargs.tool = "delete_ghost_post"
    /\ GhostDone
    /\ Len(greqs) = 1
    /\ greqs[1].outcome = "HTTPError"
    /\ gresult = IsErrorResult

C30_NoRequestOnMalformedKey ==
    genv.key = "malformed" => greqs = << >>

Calls == {1, 2}
VideoIds == {"v1", "v2"}
PairResponses ==
    { NetFailure,
      [net |-> "ok", http |-> 200, json |-> TRUE, status |-> "pending", url |-> Null],
      [net |-> "ok", http |-> 200, json |-> TRUE, status |-> "failed", url |-> Null],
      [net |-> "ok", http |-> 200, json |-> TRUE, status |-> "completed", url |-> Null],
      [net |-> "ok", http |-> 200, json |-> TRUE, status |-> "completed", url |-> VideoUrl] }
\* video_path = os.path.join(OUTPUT_DIR, f"video_{video_id}.mp4")
VideoPath(video_id) == video_id

Session(v, m) ==
    [video_id |-> v, max_retries |-> m, pc |-> "loop", retries |-> 0,
     status_data |-> NoResponse, hist |-> << >>, queries |-> 0, sleeps |-> 0,
     fetches |-> 0, video_response |-> "none", outcome |-> "running"]
InitPairVars ==
    /\ sessions \in [Calls -> {Session(v, m) : v \in VideoIds, m \in 0..MaxRetriesBound}]
    /\ outputs = [v \in VideoIds |-> [content |-> 0, writers |-> {}]]

Ended(s, e) == [s EXCEPT !.outcome = e, !.pc = "done"]
SessionStep(c, s) ==
    /\ sessions' = [sessions EXCEPT ![c] = s]
    /\ UNCHANGED outputs

\* line 156 and, when the loop is left, line 194
PairLoopTest(c) ==
    LET s == sessions[c] IN
    /\ s.pc = "loop"
    /\ SessionStep(c, IF LoopCondition(s.retries, s.max_retries)
                        THEN [s EXCEPT !.pc = "query"]
                        ELSE Ended(s, Timeout))
    /\ UNCHANGED <<pollVars, jwtVars, imgVars, ghostVars>>

\* lines 159-167
PairStatusQuery(c) ==
    LET s == sessions[c] IN
    /\ s.pc = "query"
    /\ \E r \in PairResponses :
         LET q == [s EXCEPT !.queries = @ + 1, !.hist = Append(@, r)]
         IN SessionStep(c, IF r.net = "fail" THEN Ended(q, ConnectionError)
                           ELSE IF ~r.json THEN Ended(q, JSONDecodeError)
                           ELSE [q EXCEPT !.status_data = r, !.pc = "classify"])
    /\ UNCHANGED <<pollVars, jwtVars, imgVars, ghostVars>>

\* lines 169-172 and 188-189
PairClassify(c) ==
    LET s == sessions[c]
        b == StatusBranch(s.status_data.status)
    IN
    /\ s.pc = "classify"
    /\ SessionStep(c,
          IF b = "completed"
            THEN IF UrlLookup(s.status_data.url) = "ok"
                   THEN [s EXCEPT !.pc = "fetch"]
                   ELSE Ended(s, UrlLookup(s.status_data.url))
          ELSE IF b = "failed" THEN Ended(s, JobFailed)
          ELSE [s EXCEPT !.pc = "sleep"])
    /\ UNCHANGED <<pollVars, jwtVars, imgVars, ghostVars>>

\* lines 174-175
PairFetch(c) ==
    LET s == sessions[c] IN
    /\ s.pc = "fetch"
    /\ \E f \in FetchResponses :
         LET q == [s EXCEPT !.fetches = @ + 1, !.video_response = f]
         IN SessionStep(c, IF FetchResult(f) = "ok"
                             THEN [q EXCEPT !.pc = "write"]
                             ELSE Ended(q, FetchResult(f)))
    /\ UNCHANGED <<pollVars, jwtVars, imgVars, ghostVars>>

\* lines 177-186: the call writes what it fetched to the file named after
\* its video_id
PairWrite(c) ==
    LET s == sessions[c] IN
    /\ s.pc = "write"
    /\ outputs' = [outputs EXCEPT ![VideoPath(s.video_id)] =
                      [content |-> c, writers |-> @.writers \cup {c}]]
    /\ sessions' = [sessions EXCEPT ![c] = Ended(s, Returned)]
    /\ UNCHANGED <<pollVars, jwtVars, imgVars, ghostVars>>

\* lines 191-192
PairSleep(c) ==
    LET s == sessions[c] IN
    /\ s.pc = "sleep"
    /\ SessionStep(c, [s EXCEPT !.sleeps = @ + 1, !.retries = NextRetries(@),
                                !.pc = "loop"])
    /\ UNCHANGED <<pollVars, jwtVars, imgVars, ghostVars>>

InitPair == IdlePollVars /\ IdleJwtVars /\ IdleImgVars /\ IdleGhostVars /\ InitPairVars
NextPair ==
    \E c \in Calls :
        \/ PairLoopTest(c)
        \/ PairStatusQuery(c)
        \/ PairClassify(c)
        \/ PairFetch(c)
        \/ PairWrite(c)
        \/ PairSleep(c)
SpecPair == InitPair /\ [][NextPair]_vars

\* What one call's counters and outcome are, told from its own arguments and
\* responses alone.
OwnCounters(s) ==
    /\ s.queries = Len(s.hist)
    /\ s.retries = s.sleeps
    /\ s.queries <= s.max_retries
    /\ \A k \in 1..(Len(s.hist) - 1) : InProgressResp(s.hist[k])
    /\ s.sleeps = Cardinality({k \in 1..Len(s.hist) :
                       InProgressResp(s.hist[k])
                       /\ ~(k = Len(s.hist) /\ s.pc \in {"classify", "sleep"})})
OwnOutcome(s) ==
    s.pc = "done"
    => IF s.hist = << >> \/ InProgressResp(s.hist[Len(s.hist)])
         THEN s.outcome = Timeout /\ s.sleeps = s.max_retries
       ELSE IF s.hist[Len(s.hist)].net = "fail" THEN s.outcome = ConnectionError
       ELSE IF FailedResp(s.hist[Len(s.hist)]) THEN s.outcome = JobFailed
       ELSE IF ~UrlPresent(s.hist[Len(s.hist)]) THEN s.outcome = UrlNotFound
       ELSE s.outcome = (IF FetchResult(s.video_response) = "ok"
                           THEN Returned ELSE FetchResult(s.video_response))

\* C24: when two download_video calls are interleaved, the counters and the
\* outcome of each follow from its own arguments and responses, and no file
\* written by one call is written by the other, also when both calls have
\* the same video_id.
C24_NoSharedState ==
    /\ \A c \in Calls : OwnCounters(sessions[c]) /\ OwnOutcome(sessions[c])
    /\ \A v \in VideoIds : Cardinality(outputs[v].writers) <= 1
====
